---- MODULE Spec2Model ----
(***************************************************************************)
(* Model of the double wishbone design generation of suspension_designer:  *)
(* KinematicSystem (src/Python/KinematicSystem.py) and the linkage         *)
(* initialisation and design functions (src/Python/DoubleWishbone.py),     *)
(* driven as in src/Python/BaseTesting.py.                                 *)
(*                                                                         *)
(* Numbers.  Lengths are integers counting thousandths of the source's     *)
(* unit (1525 -> 1525000), angles are integers counting hundredths of a    *)
(* degree, sample entries are integers counting hundredths (1 -> 100,      *)
(* 0.5 -> 50).  Every input used below makes the source's products and     *)
(* quotients exact in this representation.  numpy arrays of shape (3,1)    *)
(* and (3,) are sequences of length 3, 3x2 bound matrices are sequences of *)
(* three <<min, max>> rows; the source's index k is index k+1 here.        *)
(***************************************************************************)
EXTENDS Integers, Sequences, FiniteSets, TLC

VARIABLES nodes,   \* frame graph node data: frame -> Base, Position, Rotation, DoF, PoI
          Target,  \* design targets (Vehicle, Type, Linkage)
          Bound,   \* design space bounds (keys, Linkage table)
          Sample,  \* design space sample (Linkage table)
          err,     \* exception raised by the most recent GenerateDesign call, "none" if it returned
          line,    \* source line of that raise, 0 if the call returned
          stage,   \* how far DoubleWishbone.Design got in the most recent call
          calls,   \* number of GenerateDesign calls made so far
          entry,   \* the most recent call: its System argument, and nodes, Bound, Target
                   \* and stage as they were on entry to it
          rot,     \* an EulerRotation object: angles, sequence, unit flag and cached operator
          geo,     \* the Line and Plane objects under evaluation
          ret      \* the most recent geometry call: its name, arguments, value and exception

vars == <<nodes, Target, Bound, Sample, err, line, stage, calls, entry, rot, geo, ret>>

\* Largest number of GenerateDesign calls explored.
MaxCalls == 2

-----------------------------------------------------------------------------
(* numpy helpers *)

Zero3 == <<0, 0, 0>>

\* Diff with the subtraction the wrong way round.
Diff_Reversed(b) == [i \in 1..3 |-> b[i][1] - b[i][2]]

\* np.diff of a 3x2 matrix: one difference per row.
Diff(b) == [i \in 1..3 |-> b[i][2] - b[i][1]]

\* all(row == 0) for one row of a bound matrix.
AllZero(row) == \A j \in 1..2 : row[j] = 0

\* a[k] = v on a length-3 column (k is the source's 0-based index).
SetItem(a, k, v) == [a EXCEPT ![k + 1] = v]

Abs(x) == IF x < 0 THEN -x ELSE x

-----------------------------------------------------------------------------
(* Dictionary constructors and the default frame graph *)

PoI(Position) == Position

Frame(Base, Position, Rotation, DoF, Points) ==
    [Base |-> Base, Position |-> Position, Rotation |-> Rotation,
     DoF |-> [i \in 1..6 |-> DoF[i] = 1], PoI |-> Points]

DefPoI == [O  |-> PoI(Zero3),
           E1 |-> PoI(<<25000, 0, 0>>),
           E2 |-> PoI(<<0, 25000, 0>>),
           E3 |-> PoI(<<0, 0, 25000>>)]

InitNodes ==
    [I  |-> Frame("", Zero3, Zero3, <<0,0,0,0,0,0>>,
                  DefPoI @@ [RC |-> PoI(Zero3), FC |-> PoI(Zero3),
                             PC |-> PoI(Zero3), SC |-> PoI(Zero3)]),
     T  |-> Frame("I", Zero3, Zero3, <<1,1,0,1,0,1>>, DefPoI),
     W  |-> Frame("T", Zero3, Zero3, <<0,0,0,0,1,0>>,
                  DefPoI @@ [LB |-> PoI(Zero3), UB |-> PoI(Zero3), TB |-> PoI(Zero3)]),
     B  |-> Frame("I", Zero3, Zero3, <<0,0,1,1,1,0>>, DefPoI),
     X  |-> Frame("B", Zero3, Zero3, <<0,0,0,0,0,0>>,
                  DefPoI @@ [LAF |-> PoI(Zero3), LAR |-> PoI(Zero3), UAF |-> PoI(Zero3),
                             UAR |-> PoI(Zero3), TA |-> PoI(Zero3)]),
     LA |-> Frame("X", Zero3, Zero3, <<0,0,0,1,0,0>>,
                  DefPoI @@ [LAF |-> PoI(Zero3), LAR |-> PoI(Zero3), LB |-> PoI(Zero3)]),
     UA |-> Frame("X", Zero3, Zero3, <<0,0,0,1,0,0>>,
                  DefPoI @@ [UAF |-> PoI(Zero3), UAR |-> PoI(Zero3), UB |-> PoI(Zero3)]),
     TR |-> Frame("X", Zero3, Zero3, <<0,0,0,1,0,0>>,
                  DefPoI @@ [TB |-> PoI(Zero3)])]

FrameNames == DOMAIN InitNodes

\* The hardpoints in the order Design samples them.
Hardpoints == <<"LAF", "LAR", "UAF", "UAR", "TA", "LB", "UB", "TB">>

HardpointSet == {Hardpoints[k] : k \in 1..Len(Hardpoints)}

\* Default sample structure: 1 = sampled, 0 = auto-calculated or fixed.
DefaultSample ==
    [LAF |-> <<100, 100, 0>>, LAR |-> <<100, 100, 0>>,
     UAF |-> <<100, 0, 0>>,   UAR |-> <<100, 0, 0>>,
     TA  |-> <<100, 100, 0>>,
     LB  |-> <<100, 100, 100>>, UB |-> <<100, 0, 100>>, TB |-> <<100, 100, 100>>]

\* ParseBoundRestricted without the masking of zero-width axes.
ParseBoundRestricted_Unmasked(s, b) == [i \in 1..3 |-> s[i]]

\* Parsing bound restricted values: Sample[P][np.diff(Bound[P]) == 0] = 0.
ParseBoundRestricted(s, b) == [i \in 1..3 |-> IF Diff(b)[i] = 0 THEN 0 ELSE s[i]]

InitSample(linkageBound) ==
    [P \in HardpointSet |-> ParseBoundRestricted(DefaultSample[P], linkageBound[P])]

-----------------------------------------------------------------------------
(* Inputs: the targets and bounds a caller hands to KinematicSystem *)

\* Axle labels a caller may supply; only "Front" and "Rear" are recognised.
AxleLabels == {"Front", "Rear", "front", "Middle"}

Wheelbases == {1525000, 1600000}

\* Weight distribution [%F, %L].
WeightDists == {<<50, 50>>, <<40, 50>>, <<60, 50>>}

\* CG as a Python float, as a 3-vector, and as a one-element array.
CGs == {[kind |-> "float", v |-> <<215900>>],
        [kind |-> "array", v |-> <<0, 0, 215900>>],
        [kind |-> "array", v |-> <<215900>>]}

MakeTarget(axle, wheelbase, weightDist, cg) ==
    [Vehicle |-> [Wheelbase    |-> wheelbase,
                  WeightDist   |-> weightDist,
                  CG           |-> cg,
                  Ride         |-> 50800,
                  Rake         |-> 100,
                  LoadedRadius |-> 199390],
     Type    |-> [Axle    |-> axle,
                  Linkage |-> "Double Wishbone",
                  Strut   |-> "Lower Rod",
                  Spring  |-> <<"Ride", "ARB">>],
     Linkage |-> [Track      |-> 1220000,
                  Toe        |-> 50,
                  Caster     |-> 300,
                  RollCenter |-> 15,
                  Camber     |-> -6000,
                  CamberGain |-> -100]]

Targets == {MakeTarget(a, w, d, c) : a \in AxleLabels, w \in Wheelbases,
                                     d \in WeightDists, c \in CGs}

\* The linkage bounds of the driver script: LAR lateral, UAF longitudinal and
\* both UAR rows are left at zero to be inherited.
DriverLinkage ==
    [LAF |-> << <<5000, 5000>>,   <<8000, 8700>>,   <<500, 1500>> >>,
     LAR |-> << <<-5000, -5000>>, <<0, 0>>,         <<500, 1500>> >>,
     UAF |-> << <<0, 0>>,         <<8700, 10000>>,  <<6000, 8000>> >>,
     UAR |-> << <<0, 0>>,         <<0, 0>>,         <<6000, 8000>> >>,
     TA  |-> << <<2000, 3000>>,   <<8700, 8700>>,   <<2500, 2750>> >>,
     LB  |-> << <<0, 0>>,         <<-880, -880>>,   <<-3250, -2700>> >>,
     UB  |-> << <<0, 0>>,         <<-1750, -880>>,  <<3000, 3500>> >>,
     TB  |-> << <<2500, 2850>>,   <<-1250, -880>>,  <<-1500, 500>> >>]

\* Every dependent row given explicitly: nothing is inherited.
ExplicitLinkage ==
    [DriverLinkage EXCEPT !["LAR"][2] = <<7000, 7400>>,
                          !["UAF"][1] = <<4000, 4600>>,
                          !["UAR"][1] = <<-4000, -4000>>,
                          !["UAR"][2] = <<9000, 9000>>]

\* Sibling rows with a width in every inherited axis.
WideLinkage ==
    [DriverLinkage EXCEPT !["LAF"][1] = <<4000, 6000>>,
                          !["LAR"][1] = <<-6000, -4000>>]

\* A sibling row that is itself all-zero.
ZeroLinkage ==
    [DriverLinkage EXCEPT !["LAF"][2] = <<0, 0>>,
                          !["LAR"][1] = <<0, 0>>]

LinkageBounds == {DriverLinkage, ExplicitLinkage, WideLinkage, ZeroLinkage}

\* Bound as the driver compiles it: keys in insertion order.
MakeBound(linkage) ==
    [keys |-> <<"Linkage", "Strut", "Spring">>, Linkage |-> linkage]

Bounds == {MakeBound(l) : l \in LinkageBounds}

\* The System argument of GenerateDesign: a string (given by its whitespace
\* separated words) or a list of strings.
Systems == {[type |-> "str",  words |-> <<"All">>],
            [type |-> "str",  words |-> <<"Linkage">>],
            [type |-> "str",  words |-> <<"Strut">>],
            [type |-> "str",  words |-> <<"Strut", "Linkage">>],
            [type |-> "list", words |-> <<"Linkage">>],
            [type |-> "list", words |-> <<"Spring">>],
            [type |-> "list", words |-> <<"All">>],
            [type |-> "list", words |-> <<>>]}

-----------------------------------------------------------------------------
(* DoubleWishbone.Design *)

\* Subscripting the CG target: the exception CG[k] raises, "none" if it has a value.
GetItemError(cg, k) ==
    IF cg.kind = "float" THEN "TypeError"
    ELSE IF k + 1 > Len(cg.v) THEN "IndexError"
    ELSE "none"

GetItem(cg, k) == cg.v[k + 1]

\* Assigning a value into one row (shape (1,)) of a (3,1) column: a scalar or
\* a one-element array broadcasts, anything longer raises ValueError.
RowAssignError(value) == IF Len(value) = 1 THEN "none" ELSE "ValueError"

\* sin(pi/2 - angle) as <<numerator, denominator>>, for the angles used here.
SinHalfPiMinus(angle) ==
    CASE angle = 0     -> <<1, 1>>
      [] angle = -6000 -> <<1, 2>>
      [] angle = 6000  -> <<1, 2>>

\* TireLongitudinal reading the second weight distribution entry for a rear axle.
TireLongitudinal_SecondEntry(T) ==
    IF T.Type.Axle = "Front"
    THEN (T.Vehicle.Wheelbase * (100 - T.Vehicle.WeightDist[1])) \div 100
    ELSE (T.Vehicle.Wheelbase * (-T.Vehicle.WeightDist[2])) \div 100

\* Tire frame longitudinal position by axle type.
TireLongitudinal(T) ==
    IF T.Type.Axle = "Front"
    THEN (T.Vehicle.Wheelbase * (100 - T.Vehicle.WeightDist[1])) \div 100
    ELSE (T.Vehicle.Wheelbase * (-T.Vehicle.WeightDist[1])) \div 100

\* AxleRecognized with the final else branch missing.
AxleRecognized_NoElse(T) == TRUE

AxleRecognized(T) == T.Type.Axle = "Front" \/ T.Type.Axle = "Rear"

\* Tire frame and wheel frame allocation.
AllocateTireWheel(n, T) ==
    [n EXCEPT !["T"].Position = SetItem(SetItem(@, 0, TireLongitudinal(T)),
                                        1, T.Linkage.Track \div 2),
              !["T"].Rotation = SetItem(SetItem(@, 0, -T.Linkage.Camber),
                                        2, T.Linkage.Toe),
              !["W"].Position = SetItem(@, 2,
                  (T.Vehicle.LoadedRadius * SinHalfPiMinus(T.Linkage.Camber)[2])
                      \div SinHalfPiMinus(T.Linkage.Camber)[1]),
              !["W"].Rotation = SetItem(@, 1, -T.Linkage.Caster)]

\* AllocateBodyAxle writing the rake angle to the wrong rotation component.
AllocateBodyAxle_RakeAboutZ(n, T) ==
    [n EXCEPT !["B"].Position = SetItem(@, 2, GetItem(T.Vehicle.CG, 2)),
              !["B"].Rotation = SetItem(@, 2, T.Vehicle.Rake),
              !["X"].Position = SetItem(SetItem(@, 0, n["T"].Position[1]),
                                        2, T.Vehicle.Ride - GetItem(T.Vehicle.CG, 2))]

\* Body frame and axle frame allocation.
AllocateBodyAxle(n, T) ==
    [n EXCEPT !["B"].Position = SetItem(@, 2, GetItem(T.Vehicle.CG, 2)),
              !["B"].Rotation = SetItem(@, 1, T.Vehicle.Rake),
              !["X"].Position = SetItem(SetItem(@, 0, n["T"].Position[1]),
                                        2, T.Vehicle.Ride - GetItem(T.Vehicle.CG, 2))]

\* SamplePosition scaling the upper bound instead of the interval width.
SamplePosition_ScaleMax(b, s) == [i \in 1..3 |-> b[i][1] + (s[i] * b[i][2]) \div 100]

\* Bound[:,[0]] + Sample * np.diff(Bound)
SamplePosition(b, s) == [i \in 1..3 |-> b[i][1] + (s[i] * Diff(b)[i]) \div 100]

\* The frame holding hardpoint P: P[1] == 'A' is the axle frame, 'B' the wheel frame.
SecondLetter == [LAF |-> "A", LAR |-> "A", UAF |-> "A", UAR |-> "A", TA |-> "A",
                 LB  |-> "B", UB  |-> "B", TB  |-> "B"]

FrameOf(P) == IF SecondLetter[P] = "A" THEN "X" ELSE "W"

\* Inherit copying the sibling's position but not its bound row.
Inherit_PositionOnly(st, P, k, Q) ==
    IF AllZero(st.Linkage[P][k + 1])
    THEN [nodes   |-> [st.nodes EXCEPT !["X"].PoI[P] =
                          SetItem(@, k, st.nodes["X"].PoI[Q][k + 1])],
          Linkage |-> st.Linkage]
    ELSE st

\* Inherit without the all-zero guard.
Inherit_Unguarded(st, P, k, Q) ==
    [nodes   |-> [st.nodes EXCEPT !["X"].PoI[P] =
                     SetItem(@, k, st.nodes["X"].PoI[Q][k + 1])],
     Linkage |-> [st.Linkage EXCEPT ![P][k + 1] = st.Linkage[Q][k + 1]]]

\* Bound inheritance of row k of hardpoint P from sibling Q, when the row is all-zero.
Inherit(st, P, k, Q) ==
    IF AllZero(st.Linkage[P][k + 1])
    THEN [nodes   |-> [st.nodes EXCEPT !["X"].PoI[P] =
                          SetItem(@, k, st.nodes["X"].PoI[Q][k + 1])],
          Linkage |-> [st.Linkage EXCEPT ![P][k + 1] = st.Linkage[Q][k + 1]]]
    ELSE st

\* One iteration of the design space sampling loop.
SampleHardpoint(st, P, S) ==
    LET st1 == [nodes   |-> [st.nodes EXCEPT ![FrameOf(P)].PoI[P] =
                                SamplePosition(st.Linkage[P], S[P])],
                Linkage |-> st.Linkage]
    IN  IF P = "LAR" THEN Inherit(st1, "LAR", 1, "LAF")
        ELSE IF P = "UAF" THEN Inherit(st1, "UAF", 0, "LAF")
        ELSE IF P = "UAR" THEN Inherit(Inherit(st1, "UAR", 0, "LAR"), "UAR", 1, "UAF")
        ELSE st1

RECURSIVE DesignSpaceSampling(_, _, _)
\* The loop over the first k hardpoints.
DesignSpaceSampling(st, k, S) ==
    IF k = 0 THEN st
    ELSE SampleHardpoint(DesignSpaceSampling(st, k - 1, S), Hardpoints[k], S)

\* Front view swing arm length, 1/arctan(|CamberGain|), kept symbolic.
FVSA(T) == [f |-> "1/arctan", x |-> Abs(T.Linkage.CamberGain)]

\* SetFVSA also storing the absolute camber gain it computes back into Target.
SetFVSA_OverCamberGain(T) ==
    [T EXCEPT !.Linkage = [FVSA |-> FVSA(T), CamberGain |-> Abs(T.Linkage.CamberGain)] @@ @]

\* Target['Linkage']['FVSA'] = ...: the key is added, or overwritten on a re-run.
SetFVSA(T) == [T EXCEPT !.Linkage = [FVSA |-> FVSA(T)] @@ @]

\* CG * RollCenter/100, elementwise.
RollCenterHeight(T) ==
    [i \in 1..Len(T.Vehicle.CG.v) |-> (T.Vehicle.CG.v[i] * T.Linkage.RollCenter) \div 100]

Outcome(n, T, B, e, l, g) ==
    [nodes |-> n, Target |-> T, Bound |-> B, err |-> e, line |-> l, stage |-> g]

\* Design: the state and the exception it leaves behind.
Design(n, T, B, S) ==
    IF ~AxleRecognized(T) THEN Outcome(n, T, B, "Exception", 161, "axle")
    ELSE
    LET n1 == AllocateTireWheel(n, T) IN
    IF GetItemError(T.Vehicle.CG, 2) # "none"
    THEN Outcome(n1, T, B, GetItemError(T.Vehicle.CG, 2), 176, "known")
    ELSE
    LET n2 == AllocateBodyAxle(n1, T)
        st == DesignSpaceSampling([nodes |-> n2, Linkage |-> B.Linkage],
                                  Len(Hardpoints), S)
        B3 == [B EXCEPT !.Linkage = st.Linkage]
        T3 == SetFVSA(T)
        n3 == [st.nodes EXCEPT !["I"].PoI["RC"] = SetItem(@, 0, st.nodes["T"].Position[1])]
    IN  IF RowAssignError(RollCenterHeight(T3)) # "none"
        THEN Outcome(n3, T3, B3, RowAssignError(RollCenterHeight(T3)), 231, "sampled")
        ELSE Outcome([n3 EXCEPT !["I"].PoI["RC"] = SetItem(@, 2, RollCenterHeight(T3)[1])],
                     T3, B3, "none", 0, "returned")

-----------------------------------------------------------------------------
(* KinematicSystem *)

\* System == 'All' -> list(Bound.keys()); a string -> System.split(); a list as is.
SystemList(System, B) ==
    IF System.type = "str" /\ System.words = <<"All">> THEN B.keys
    ELSE System.words

RECURSIVE RunSystems(_, _, _)
\* The loop over System from its k-th entry, started from outcome o.
RunSystems(o, sys, S) ==
    IF sys = <<>> \/ o.err # "none" THEN o
    ELSE IF Head(sys) = "Linkage"
         THEN RunSystems(Design(o.nodes, o.Target, o.Bound, S), Tail(sys), S)
    ELSE IF Head(sys) = "Strut"
         THEN Outcome(o.nodes, o.Target, o.Bound, "KeyError", 54, o.stage)
    ELSE IF Head(sys) = "Spring"
         THEN Outcome(o.nodes, o.Target, o.Bound, "TypeError", 56, o.stage)
    ELSE RunSystems(o, Tail(sys), S)

\* The state after KinematicSystem(Name, Target, Bound): the linkage
\* initialisation has built the frame graph and the sample structure.
Construct(T, B) ==
    /\ nodes  = InitNodes
    /\ Target = T
    /\ Bound  = B
    /\ Sample = [Linkage |-> InitSample(B.Linkage)]

\* No GenerateDesign call made yet.
NoCall ==
    /\ err = "none" /\ line = 0 /\ stage = "none" /\ calls = 0
    /\ entry = [System |-> [type |-> "list", words |-> <<>>],
                nodes |-> nodes, Bound |-> Bound, Target |-> Target, stage |-> "none"]

\* No geometry object in use.
NoGeometry == rot = [object |-> "None"] /\ geo = [object |-> "None"] /\ ret = [call |-> "none"]

Init ==
    /\ \E T \in Targets, B \in Bounds : Construct(T, B)
    /\ NoCall
    /\ NoGeometry

GenerateDesign(System) ==
    /\ calls < MaxCalls
    /\ LET o == RunSystems(Outcome(nodes, Target, Bound, "none", 0, "none"),
                           SystemList(System, Bound), Sample.Linkage)
       IN  /\ nodes'  = o.nodes
           /\ Target' = o.Target
           /\ Bound'  = o.Bound
           /\ err'    = o.err
           /\ line'   = o.line
           /\ stage'  = o.stage
    /\ calls' = calls + 1
    /\ entry' = [System |-> System, nodes |-> nodes, Bound |-> Bound,
                 Target |-> Target, stage |-> stage]
    /\ UNCHANGED <<Sample, rot, geo, ret>>

Next == \E System \in Systems : GenerateDesign(System)

Spec == Init /\ [][Next]_vars

-----------------------------------------------------------------------------
(* The caller samples the design space between construction and design       *)
(* generation: one hardpoint's sample vector is replaced by values in [0,1]. *)

SampleValues == {0, 50, 100}

SampledTargets == {MakeTarget(a, 1525000, <<50, 50>>, c) :
                       a \in {"Front", "Middle"}, c \in CGs}

SampleDesignSpace(S, P, s) == [S EXCEPT !.Linkage[P] = s]

InitSampled ==
    /\ \E T \in SampledTargets, B \in Bounds, P \in HardpointSet,
          s \in [1..3 -> SampleValues] :
           /\ nodes  = InitNodes
           /\ Target = T
           /\ Bound  = B
           /\ Sample = SampleDesignSpace([Linkage |-> InitSample(B.Linkage)], P, s)
    /\ NoCall
    /\ NoGeometry

SpecSampled == InitSampled /\ [][Next]_vars

-----------------------------------------------------------------------------
(* Vocabulary of the properties *)

\* The most recent call reached DoubleWishbone.Design.
DesignInvoked ==
    /\ calls > 0
    /\ SystemList(entry.System, entry.Bound) # <<>>
    /\ Head(SystemList(entry.System, entry.Bound)) = "Linkage"

\* The most recent Design run got through the design space sampling loop.
Sampled == stage \in {"sampled", "returned"}

\* The dependent rows: <<dependent hardpoint, axis, sibling>>, axis 1 longitudinal,
\* 2 lateral.
Dependents == {<<"LAR", 2, "LAF">>, <<"UAF", 1, "LAF">>,
               <<"UAR", 1, "LAR">>, <<"UAR", 2, "UAF">>}

\* Row i of hardpoint P was inherited by the most recent Design run.
InheritedOnEntry(P, i) ==
    /\ \E d \in Dependents : d[1] = P /\ d[2] = i
    /\ AllZero(entry.Bound.Linkage[P][i])

\* The resolved position of hardpoint P.
Resolved(P) == nodes[FrameOf(P)].PoI[P]

\* Component i (1..6: three of position, three of rotation) of frame F.
Component(F, i) == IF i <= 3 THEN nodes[F].Position[i] ELSE nodes[F].Rotation[i - 3]

-----------------------------------------------------------------------------
(* C1 *)

\* C1 (as stated): when Design is run twice in succession, every frame
\* position and rotation and every point of interest position after the
\* second run equals what it was after the first run.
C1_Idempotent ==
    (DesignInvoked /\ stage # "none" /\ entry.stage # "none") => nodes = entry.nodes

-----------------------------------------------------------------------------
(* C2 *)

\* C2 (as stated): for the driver's well-formed configuration (axle Front or
\* Rear, CG height a scalar, all eight linkage bounds present) GenerateDesign
\* for the Linkage subsystem returns without raising.
C2_DriverRunCompletes ==
    (/\ calls > 0
     /\ entry.System = [type |-> "list", words |-> <<"Linkage">>]
     /\ AxleRecognized(Target)
     /\ Target.Vehicle.CG.kind = "float"
     /\ DOMAIN Bound.Linkage = HardpointSet)
    => err = "none"

-----------------------------------------------------------------------------
(* C3 *)

\* C3: after a Design run that got through the sampling loop, each dependent
\* row that was all-zero on entry has the sibling's resolved position on that
\* axis and the sibling's bound row.
C3_BoundInheritance ==
    Sampled =>
        \A d \in Dependents :
            AllZero(entry.Bound.Linkage[d[1]][d[2]]) =>
                /\ Resolved(d[1])[d[2]] = Resolved(d[3])[d[2]]
                /\ Bound.Linkage[d[1]][d[2]] = Bound.Linkage[d[3]][d[2]]

\* A run in which LAR inherited a lateral row with a width from LAF.
C3_Witness ==
    /\ Sampled
    /\ AllZero(entry.Bound.Linkage["LAR"][2])
    /\ Bound.Linkage["LAR"][2] = <<8000, 8700>>
    /\ Resolved("LAR")[2] = 8700

-----------------------------------------------------------------------------
(* C4 *)

\* C4 (as stated): after Design the tire frame's longitudinal position is
\* wheelbase * (1 - front/100) for a front axle and -wheelbase * rear/100 for
\* a rear axle, rear being the rear weight fraction 100 - front.
C4_TireLongitudinalRearFraction ==
    (DesignInvoked /\ stage # "axle") =>
        /\ Target.Type.Axle = "Front" =>
              100 * nodes["T"].Position[1] =
                  Target.Vehicle.Wheelbase * (100 - Target.Vehicle.WeightDist[1])
        /\ Target.Type.Axle = "Rear" =>
              100 * nodes["T"].Position[1] =
                  -(Target.Vehicle.Wheelbase * (100 - Target.Vehicle.WeightDist[1]))

\* C4 (amended): after a Design run that passed the axle check the tire
\* frame's longitudinal position is wheelbase * (1 - front/100) for a front
\* axle and -wheelbase * front/100 for a rear axle.
C4_TireLongitudinal ==
    (DesignInvoked /\ stage # "axle") =>
        /\ Target.Type.Axle = "Front" =>
              100 * nodes["T"].Position[1] =
                  Target.Vehicle.Wheelbase * (100 - Target.Vehicle.WeightDist[1])
        /\ Target.Type.Axle = "Rear" =>
              100 * nodes["T"].Position[1] =
                  -(Target.Vehicle.Wheelbase * Target.Vehicle.WeightDist[1])

\* A rear axle with an uneven weight split, after Design.
C4_Witness ==
    /\ DesignInvoked /\ stage # "axle"
    /\ Target.Type.Axle = "Rear"
    /\ Target.Vehicle.Wheelbase = 1525000
    /\ Target.Vehicle.WeightDist[1] = 40
    /\ nodes["T"].Position[1] = -610000

-----------------------------------------------------------------------------
(* C5 *)

\* C5 (as stated): every frame position and rotation component whose DoF mask
\* entry is false equals its initialised value, zero.
C5_FixedComponentsZero ==
    \A F \in FrameNames : \A i \in 1..6 :
        ~nodes[F].DoF[i] => Component(F, i) = 0

\* The components Design writes although the owning frame's mask flags them fixed.
WrittenFixed == {<<"W", 3>>, <<"X", 1>>, <<"X", 3>>}

\* C5 (amended): every frame position and rotation component whose DoF mask
\* entry is false equals zero, except the wheel frame's vertical position and
\* the axle frame's longitudinal and vertical positions, which Design writes.
C5_FixedComponentsZeroExceptWritten ==
    \A F \in FrameNames : \A i \in 1..6 :
        (~nodes[F].DoF[i] /\ <<F, i>> \notin WrittenFixed) => Component(F, i) = 0

\* Design has written the three fixed-flagged components.
C5_Witness ==
    /\ Sampled
    /\ \A c \in WrittenFixed : ~nodes[c[1]].DoF[c[2]] /\ Component(c[1], c[2]) # 0

-----------------------------------------------------------------------------
(* C6 *)

\* C6 (as stated): whenever a GenerateDesign call fails, the frame positions
\* and rotations, the point of interest positions and Bound are as before the
\* call.
C6_NoPartialGeometry ==
    (calls > 0 /\ err # "none") => (nodes = entry.nodes /\ Bound = entry.Bound)

-----------------------------------------------------------------------------
(* C7 *)

\* C7: Design with an axle label other than 'Front' or 'Rear' raises the
\* axle-type-not-recognized exception.
C7_UnknownAxleFails ==
    (DesignInvoked /\ Target.Type.Axle \notin {"Front", "Rear"}) =>
        (err = "Exception" /\ line = 161)

\* Design was run with the label 'front'.
C7_Witness ==
    DesignInvoked /\ Target.Type.Axle = "front" /\ err = "Exception"

-----------------------------------------------------------------------------
(* C8 *)

\* C8 (as stated): after the sampling loop, every hardpoint axis whose bound
\* on entry has boundMin = boundMax is resolved to boundMin.
C8_DegenerateBound ==
    Sampled =>
        \A P \in HardpointSet : \A i \in 1..3 :
            entry.Bound.Linkage[P][i][1] = entry.Bound.Linkage[P][i][2] =>
                Resolved(P)[i] = entry.Bound.Linkage[P][i][1]

\* C8 (amended): after the sampling loop, every hardpoint axis whose bound on
\* entry has boundMin = boundMax, other than a dependent row that is all-zero
\* on entry, is resolved to boundMin whatever its sample entry.
C8_DegenerateBoundNotInherited ==
    Sampled =>
        \A P \in HardpointSet : \A i \in 1..3 :
            (/\ entry.Bound.Linkage[P][i][1] = entry.Bound.Linkage[P][i][2]
             /\ ~InheritedOnEntry(P, i)) =>
                Resolved(P)[i] = entry.Bound.Linkage[P][i][1]

\* A degenerate axis resolved with a non-zero sample entry.
C8_Witness ==
    /\ Sampled
    /\ entry.Bound.Linkage["LAF"][1] = <<5000, 5000>>
    /\ Sample.Linkage["LAF"][1] = 50
    /\ Resolved("LAF")[1] = 5000

-----------------------------------------------------------------------------
(* C9 *)

\* C9 (as stated): after the sampling loop, every hardpoint axis is resolved
\* to boundMin + sample * (boundMax - boundMin) of its bound on entry.
C9_SampleMapping ==
    Sampled =>
        \A P \in HardpointSet : \A i \in 1..3 :
            100 * (Resolved(P)[i] - entry.Bound.Linkage[P][i][1]) =
                Sample.Linkage[P][i]
                    * (entry.Bound.Linkage[P][i][2] - entry.Bound.Linkage[P][i][1])

\* C9 (amended): after the sampling loop, every hardpoint axis other than a
\* dependent row that is all-zero on entry is resolved to
\* boundMin + sample * (boundMax - boundMin): sample 0 gives boundMin, sample 1
\* boundMax and sample 0.5 the arithmetic midpoint.
C9_SampleMappingNotInherited ==
    Sampled =>
        \A P \in HardpointSet : \A i \in 1..3 :
            ~InheritedOnEntry(P, i) =>
                LET lo == entry.Bound.Linkage[P][i][1]
                    hi == entry.Bound.Linkage[P][i][2]
                    x  == Resolved(P)[i]
                IN  /\ 100 * (x - lo) = Sample.Linkage[P][i] * (hi - lo)
                    /\ Sample.Linkage[P][i] = 0   => x = lo
                    /\ Sample.Linkage[P][i] = 100 => x = hi
                    /\ Sample.Linkage[P][i] = 50  => 2 * x = lo + hi

\* A half sample resolved to the midpoint of an interval with a width.
C9_Witness ==
    /\ Sampled
    /\ entry.Bound.Linkage["TB"][3] = <<-1500, 500>>
    /\ Sample.Linkage["TB"][3] = 50
    /\ Resolved("TB")[3] = -500

-----------------------------------------------------------------------------
(* C10 *)

\* C10: every Sample entry lies in [0,1] and every hardpoint axis whose Bound
\* interval has zero width has Sample entry 0.
C10_SampleInvariant ==
    \A P \in HardpointSet : \A i \in 1..3 :
        /\ 0 <= Sample.Linkage[P][i] /\ Sample.Linkage[P][i] <= 100
        /\ Bound.Linkage[P][i][1] = Bound.Linkage[P][i][2] => Sample.Linkage[P][i] = 0

\* After a Design run that inherited bounds, with a sampled-by-default axis of
\* zero width.
C10_Witness ==
    /\ Sampled
    /\ Bound # entry.Bound
    /\ DefaultSample["TA"][2] = 100
    /\ Bound.Linkage["TA"][2][1] = Bound.Linkage["TA"][2][2]
    /\ Sample.Linkage["TA"][2] = 0

-----------------------------------------------------------------------------
(* C11 *)

\* C11 (as stated): after a Design run the Target structure, keys and values,
\* is identical to what it was before the run.
C11_TargetUnchanged ==
    DesignInvoked => Target = entry.Target

\* C11 (amended): a Design run leaves every Target entry that was present
\* before it with its value, and adds at most the derived entry
\* Linkage['FVSA'].
C11_TargetKeptExceptFVSA ==
    DesignInvoked =>
        /\ DOMAIN Target = DOMAIN entry.Target
        /\ \A sec \in DOMAIN entry.Target :
              /\ \A k \in DOMAIN entry.Target[sec] :
                    k \in DOMAIN Target[sec] /\ Target[sec][k] = entry.Target[sec][k]
              /\ DOMAIN Target[sec] \ DOMAIN entry.Target[sec]
                    \subseteq (IF sec = "Linkage" THEN {"FVSA"} ELSE {})

\* A Design run that added the FVSA entry to Target.
C11_Witness ==
    /\ DesignInvoked /\ Sampled
    /\ "FVSA" \notin DOMAIN entry.Target.Linkage
    /\ "FVSA" \in DOMAIN Target.Linkage
    /\ Target.Linkage.CamberGain = -100

-----------------------------------------------------------------------------
(* C16 *)

\* Some Design run before the most recent call got through the sampling loop:
\* it left the FVSA entry, written right after the loop, in Target.
RanBefore == "FVSA" \in DOMAIN entry.Target.Linkage

\* C16: a GenerateDesign call changes no Bound entry other than the four
\* dependent rows, changes such a row only when it is all-zero on entry, and
\* once a Design run has got through the sampling loop every further call
\* leaves Bound entirely unchanged.
C16_WideningConfinedOnce ==
    calls > 0 =>
        /\ Bound.keys = entry.Bound.keys
        /\ \A P \in HardpointSet : \A i \in 1..3 :
              Bound.Linkage[P][i] # entry.Bound.Linkage[P][i] =>
                  InheritedOnEntry(P, i)
        /\ RanBefore => Bound = entry.Bound

\* A second sampling run over a Bound the first run had widened.
C16_Witness ==
    /\ calls = 2 /\ Sampled
    /\ entry.stage = "sampled"
    /\ Bound.Linkage["LAR"][2] = <<8000, 8700>>
    /\ Bound.Linkage["UAF"][1] = <<5000, 5000>>
    /\ Bound = entry.Bound

-----------------------------------------------------------------------------
(* geometry.EulerRotation *)

\* Largest angle an in-place addition may reach.
MaxAngle == 60

AngleValues == {0, 30}

Sequences == {"ZYX", "XYZ"}

\* utilities.sequence_to_index: the axis index of each letter of the sequence.
SequenceToIndex(sequence) ==
    CASE sequence = "ZYX" -> <<2, 1, 0>>
      [] sequence = "XYZ" -> <<0, 1, 2>>

\* self[self._index]
TakeIndex(a, index) == [i \in 1..Len(index) |-> a[index[i] + 1]]

\* scipy's Rotation.from_euler(sequence, angles, degrees), kept symbolic: the
\* operator is identified by what it was built from.
FromEuler(sequence, angles, degrees) ==
    [sequence |-> sequence, angles |-> angles, degrees |-> degrees]

\* _operator = None
NoOperator == [sequence |-> "", angles |-> <<>>, degrees |-> FALSE]

\* EulerRotation(rotation, sequence, degrees)
EulerNew(rotation, sequence, degrees) ==
    [angles |-> rotation, sequence |-> sequence, index |-> SequenceToIndex(sequence),
     degrees |-> degrees, synced |-> FALSE, operator |-> NoOperator]

\* _set_operator
SetOperator(r) ==
    [r EXCEPT !.operator = FromEuler(r.sequence, TakeIndex(r.angles, r.index), r.degrees),
              !.synced = TRUE]

\* the _sync_operator decorator: set the operator if it is not synced
SyncOperator(r) == IF ~r.synced THEN SetOperator(r) ELSE r

\* The kinematic system the geometry specifications leave untouched.
IdleSystem ==
    /\ Construct(MakeTarget("Front", 1525000, <<50, 50>>, [kind |-> "float", v |-> <<215900>>]),
                 MakeBound(DriverLinkage))
    /\ NoCall

system == <<nodes, Target, Bound, Sample, err, line, stage, calls, entry>>

InitRotation ==
    /\ IdleSystem
    /\ \E a \in [1..3 -> AngleValues], q \in Sequences, d \in BOOLEAN :
          rot = EulerNew(a, q, d)
    /\ geo = [object |-> "None"]
    /\ ret = [call |-> "new", value |-> NoOperator]

\* rot[key] = value
EulerSetItem(key, value) ==
    /\ rot' = [rot EXCEPT !.angles[key + 1] = value, !.synced = FALSE]
    /\ ret' = [call |-> "setitem", value |-> NoOperator]
    /\ UNCHANGED <<system, geo>>

\* rot[lo:hi] = value
EulerSetSlice(lo, hi, value) ==
    /\ lo < hi
    /\ rot' = [rot EXCEPT !.angles = [i \in 1..3 |-> IF lo < i /\ i <= hi THEN value ELSE @[i]],
                          !.synced = FALSE]
    /\ ret' = [call |-> "setslice", value |-> NoOperator]
    /\ UNCHANGED <<system, geo>>

\* rot += delta: numpy's in-place add writes the angles through the ufunc,
\* not through __setitem__, and leaves every attribute as it is.
EulerInPlaceAdd(delta) ==
    /\ \A i \in 1..3 : rot.angles[i] + delta <= MaxAngle
    /\ rot' = [rot EXCEPT !.angles = [i \in 1..3 |-> @[i] + delta]]
    /\ ret' = [call |-> "iadd", value |-> NoOperator]
    /\ UNCHANGED <<system, geo>>

\* rot.sequence = value
EulerSetSequence(value) ==
    /\ rot' = [rot EXCEPT !.index = SequenceToIndex(value), !.sequence = value,
                          !.synced = FALSE]
    /\ ret' = [call |-> "sequence", value |-> NoOperator]
    /\ UNCHANGED <<system, geo>>

\* rot.apply(vector, inverse): the value is the operator the vector went through.
EulerApply ==
    /\ rot' = SyncOperator(rot)
    /\ ret' = [call |-> "apply", value |-> SyncOperator(rot).operator]
    /\ UNCHANGED <<system, geo>>

\* rot.as_matrix(): the value is the operator the matrix was read from.
EulerAsMatrix ==
    /\ rot' = SyncOperator(rot)
    /\ ret' = [call |-> "as_matrix", value |-> SyncOperator(rot).operator]
    /\ UNCHANGED <<system, geo>>

NextRotation ==
    \/ \E k \in 0..2, v \in AngleValues : EulerSetItem(k, v)
    \/ \E lo \in 0..2, hi \in 1..3, v \in AngleValues : EulerSetSlice(lo, hi, v)
    \/ \E d \in {30} : EulerInPlaceAdd(d)
    \/ \E q \in Sequences : EulerSetSequence(q)
    \/ EulerApply
    \/ EulerAsMatrix

SpecRotation == InitRotation /\ [][NextRotation]_vars

-----------------------------------------------------------------------------
(* C12 *)

\* C12 (as stated): every apply and as_matrix uses an operator built from the
\* rotation's current angles, sequence and unit flag, and every mutation of an
\* angle component (item or slice assignment, in-place arithmetic) or of the
\* sequence leaves the cache marked invalid.
C12_CacheConsistent ==
    /\ ret.call \in {"apply", "as_matrix"} =>
          ret.value = FromEuler(rot.sequence, TakeIndex(rot.angles, rot.index), rot.degrees)
    /\ ret.call \in {"setitem", "setslice", "iadd", "sequence"} => ~rot.synced

-----------------------------------------------------------------------------
(* geometry.Line and geometry.Plane *)
(*                                                                         *)
(* Points with integer coordinates.  A computed coordinate is a fraction   *)
(* [num, den] or one of the IEEE values inf, -inf, nan that numpy's        *)
(* division by zero produces; computed points are sequences of three such  *)
(* values.  Arithmetic is exact: rounding is not modelled.                 *)

\* Largest coordinate of a query point and largest query coordinate.
MaxCoord == 1

\* The points planes and lines are built from.
PlanePoints == {<<0, 0, 0>>, <<1, 0, 0>>, <<0, 1, 0>>, <<0, 0, 1>>, <<1, 1, 0>>, <<1, 1, 1>>}

\* The planes handed to intersection as its argument: x = 0, y = 0, z = 0,
\* x + y + z = 1, x = y and y = z.
OtherPlanes == {<<<<0, 0, 0>>, <<0, 1, 0>>, <<0, 0, 1>>>>,
                <<<<0, 0, 0>>, <<1, 0, 0>>, <<0, 0, 1>>>>,
                <<<<0, 0, 0>>, <<1, 0, 0>>, <<0, 1, 0>>>>,
                <<<<1, 0, 0>>, <<0, 1, 0>>, <<0, 0, 1>>>>,
                <<<<0, 0, 0>>, <<1, 1, 0>>, <<0, 0, 1>>>>,
                <<<<0, 0, 0>>, <<1, 0, 0>>, <<1, 1, 1>>>>}

QueryPoints == {<<x, y, z>> : x \in 0..MaxCoord, y \in 0..MaxCoord, z \in 0..MaxCoord}

QueryValues == -1..MaxCoord

Dot(u, v) == u[1] * v[1] + u[2] * v[2] + u[3] * v[3]

Cross(u, v) == <<u[2] * v[3] - u[3] * v[2],
                 u[3] * v[1] - u[1] * v[3],
                 u[1] * v[2] - u[2] * v[1]>>

Sub(u, v) == [i \in 1..3 |-> u[i] - v[i]]

Fin(n, d) == [kind |-> "fin", num |-> n, den |-> d]

Inf == [kind |-> "inf", num |-> 0, den |-> 0]

NegInf == [kind |-> "-inf", num |-> 0, den |-> 0]

NaN == [kind |-> "nan", num |-> 0, den |-> 0]

\* n / d on numpy scalars: division by zero gives inf, -inf or nan, not an exception.
Divide(n, d) ==
    IF d # 0 THEN Fin(n, d)
    ELSE IF n > 0 THEN Inf ELSE IF n < 0 THEN NegInf ELSE NaN

\* 1 - x
OneMinus(x) ==
    CASE x.kind = "fin"  -> Fin(x.den - x.num, x.den)
      [] x.kind = "inf"  -> NegInf
      [] x.kind = "-inf" -> Inf
      [] x.kind = "nan"  -> NaN

\* a * x for an integer a
Scale(a, x) ==
    CASE x.kind = "fin" -> Fin(a * x.num, x.den)
      [] x.kind = "nan" -> NaN
      [] x.kind = "inf"  -> IF a > 0 THEN Inf ELSE IF a < 0 THEN NegInf ELSE NaN
      [] x.kind = "-inf" -> IF a > 0 THEN NegInf ELSE IF a < 0 THEN Inf ELSE NaN

\* x + y
Plus(x, y) ==
    IF x.kind = "nan" \/ y.kind = "nan" THEN NaN
    ELSE IF x.kind = "fin" /\ y.kind = "fin"
         THEN Fin(x.num * y.den + y.num * x.den, x.den * y.den)
    ELSE IF x.kind = "fin" THEN y
    ELSE IF y.kind = "fin" THEN x
    ELSE IF x.kind = y.kind THEN x
    ELSE NaN

\* lerp(point_A, point_B, alpha) = point_A*(1-alpha) + point_B*alpha
lerp(point_A, point_B, alpha) ==
    [i \in 1..3 |-> Plus(Scale(point_A[i], OneMinus(alpha)), Scale(point_B[i], alpha))]

\* Line(point_A, point_B)
LineNew(point_A, point_B) == [class |-> "Line", point |-> <<point_A, point_B>>]

\* Line.__call__(query, index) on a line through integer points
LineCall(L, query, index) ==
    LET alpha == Divide(query - L.point[1][index + 1],
                        L.point[2][index + 1] - L.point[1][index + 1])
    IN  lerp(L.point[1], L.point[2], alpha)

\* The null space of [point | 1]: the plane's coefficients (a, b, c, d) of
\* a*x + b*y + c*z + d = 0, up to the scale and sign of scipy's unit vector.
NullSpace(point_A, point_B, point_C) ==
    LET N == Cross(Sub(point_B, point_A), Sub(point_C, point_A))
    IN  <<N[1], N[2], N[3], -Dot(N, point_A)>>

\* The null space has one dimension only when the points are not collinear.
PlaneError(point_A, point_B, point_C) ==
    IF Cross(Sub(point_B, point_A), Sub(point_C, point_A)) = Zero3
    THEN "ValueError" ELSE "none"

\* Plane(point_A, point_B, point_C)
PlaneNew(point_A, point_B, point_C) ==
    [class |-> "Plane", point |-> <<point_A, point_B, point_C>>,
     null_space |-> NullSpace(point_A, point_B, point_C)]

\* Squared length of the integer coefficient vector: scipy's null space is
\* this vector divided by its length.
NormSq(v) == v[1] * v[1] + v[2] * v[2] + v[3] * v[3] + v[4] * v[4]

\* |A[r, c]|^2 of the unit rows, brought to the common denominator of both rows.
MagSq(A, r, c) == A[r][c] * A[r][c] * NormSq(A[3 - r])

\* np.unravel_index(np.argmin(np.abs(A[:,:3])), ...)[1]: the column (0-based)
\* of the first smallest entry in row-major order.
ArgminColumn(A) ==
    LET cells == <<<<1, 1>>, <<1, 2>>, <<1, 3>>, <<2, 1>>, <<2, 2>>, <<2, 3>>>>
        least(k) == /\ \A m \in 1..6 :
                          MagSq(A, cells[k][1], cells[k][2]) <= MagSq(A, cells[m][1], cells[m][2])
        k0 == CHOOSE k \in 1..6 : least(k) /\ \A m \in 1..(k - 1) : ~least(m)
    IN  cells[k0][2] - 1

\* The columns of A[:, :3] kept in Ar (1-based), in increasing order.
KeptColumns(j) ==
    CASE j = 0 -> <<2, 3>>
      [] j = 1 -> <<1, 3>>
      [] j = 2 -> <<1, 2>>

\* np.linalg.solve(Ar, rhs) for 2x2 Ar, by Cramer's rule: the determinant and
\* the numerators of the two unknowns.
Solve2(Ar, rhs) ==
    [det |-> Ar[1][1] * Ar[2][2] - Ar[1][2] * Ar[2][1],
     x1  |-> rhs[1] * Ar[2][2] - Ar[1][2] * rhs[2],
     x2  |-> Ar[1][1] * rhs[2] - Ar[2][1] * rhs[1]]

\* np.insert(solution, 0, value): the value goes in front.
InsertFront(sol, value) == <<Fin(value * sol.det, sol.det), Fin(sol.x1, sol.det), Fin(sol.x2, sol.det)>>

\* Plane.intersection(other): the exception raised, and the Line returned.
PlaneIntersection(P, other) ==
    LET A  == <<P.null_space, other.null_space>>
        j  == ArgminColumn(A)
        c  == KeptColumns(j)
        Ar == <<<<A[1][c[1]], A[1][c[2]]>>, <<A[2][c[1]], A[2][c[2]]>>>>
        b0 == <<A[1][4], A[2][4]>>
        b1 == <<A[1][4] + A[1][j + 1], A[2][4] + A[2][j + 1]>>
        s0 == Solve2(Ar, <<-b0[1], -b0[2]>>)
        s1 == Solve2(Ar, <<-b1[1], -b1[2]>>)
    IN  IF s0.det = 0
        THEN [err |-> "LinAlgError", j |-> j, value |-> LineNew(<<NaN, NaN, NaN>>, <<NaN, NaN, NaN>>)]
        ELSE [err |-> "none", j |-> j,
              value |-> LineNew(InsertFront(s0, 0), InsertFront(s1, 1))]

\* Plane.perp(point): point[0] + dot(point - point[0], n) * n with n the unit
\* normal N/|N|, that is point[0] + (dot(point - point[0], N) / dot(N, N)) * N.
PlanePerp(P, point) ==
    LET N == <<P.null_space[1], P.null_space[2], P.null_space[3]>>
    IN  [i \in 1..3 |->
            Fin(P.point[1][i] * Dot(N, N) + Dot(Sub(point, P.point[1]), N) * N[i], Dot(N, N))]

\* Plane.proj(point): point - perp(point)
PlaneProj(P, point) ==
    [i \in 1..3 |-> Plus(Fin(point[i], 1), Scale(-1, PlanePerp(P, point)[i]))]


InitGeometry ==
    /\ IdleSystem
    /\ rot = [object |-> "None"]
    /\ \/ \E a \in PlanePoints, b \in PlanePoints, c \in PlanePoints :
             IF PlaneError(a, b, c) = "none"
             THEN /\ geo = PlaneNew(a, b, c)
                  /\ ret = [call |-> "Plane", args |-> <<a, b, c>>, err |-> "none"]
             ELSE /\ geo = [class |-> "None"]
                  /\ ret = [call |-> "Plane", args |-> <<a, b, c>>, err |-> "ValueError"]
       \/ \E a \in PlanePoints, b \in PlanePoints :
             /\ geo = LineNew(a, b)
             /\ ret = [call |-> "Line", args |-> <<a, b>>, err |-> "none"]

\* geo.intersection(Plane(a, b, c))
Intersection(a, b, c) ==
    /\ geo.class = "Plane"
    /\ PlaneError(a, b, c) = "none"
    /\ LET r == PlaneIntersection(geo, PlaneNew(a, b, c))
       IN  ret' = [call |-> "intersection", args |-> <<PlaneNew(a, b, c)>>,
                   err |-> r.err, value |-> r.value]
    /\ UNCHANGED <<system, rot, geo>>

\* geo.proj(point)
Proj(point) ==
    /\ geo.class = "Plane"
    /\ ret' = [call |-> "proj", args |-> <<point>>, err |-> "none",
               value |-> PlaneProj(geo, point)]
    /\ UNCHANGED <<system, rot, geo>>

\* geo.perp(point)
Perp(point) ==
    /\ geo.class = "Plane"
    /\ ret' = [call |-> "perp", args |-> <<point>>, err |-> "none",
               value |-> PlanePerp(geo, point)]
    /\ UNCHANGED <<system, rot, geo>>

\* geo(query, index)
Evaluate(query, index) ==
    /\ geo.class = "Line"
    /\ ret' = [call |-> "call", args |-> <<query, index>>, err |-> "none",
               value |-> LineCall(geo, query, index)]
    /\ UNCHANGED <<system, rot, geo>>

NextGeometry ==
    \/ \E o \in OtherPlanes : Intersection(o[1], o[2], o[3])
    \/ \E point \in QueryPoints : Proj(point)
    \/ \E point \in QueryPoints : Perp(point)
    \/ \E query \in QueryValues, index \in 0..2 : Evaluate(query, index)

SpecGeometry == InitGeometry /\ [][NextGeometry]_vars

\* The computed point x satisfies the implicit equation of plane P.
OnPlane(P, x) ==
    /\ \A i \in 1..3 : x[i].kind = "fin" /\ x[i].den # 0
    /\ P.null_space[1] * x[1].num * x[2].den * x[3].den
         + P.null_space[2] * x[2].num * x[1].den * x[3].den
         + P.null_space[3] * x[3].num * x[1].den * x[2].den
         + P.null_space[4] * x[1].den * x[2].den * x[3].den = 0

Normal(P) == <<P.null_space[1], P.null_space[2], P.null_space[3]>>

\* The computed value x equals the fraction n/d.
Equals(x, n, d) == x.kind = "fin" /\ x.den # 0 /\ x.num * d = n * x.den

-----------------------------------------------------------------------------
(* C13 *)

\* C13 (as stated): for two non-parallel planes, intersection returns a Line
\* whose two defining points both satisfy both planes' equations.
C13_IntersectionOnBothPlanes ==
    (/\ ret.call = "intersection"
     /\ Cross(Normal(geo), Normal(ret.args[1])) # Zero3)
    => /\ ret.err = "none"
       /\ \A k \in 1..2 : /\ OnPlane(geo, ret.value.point[k])
                          /\ OnPlane(ret.args[1], ret.value.point[k])

-----------------------------------------------------------------------------
(* C14 *)

\* C14 (as stated): proj(point) lies on the plane, perp(point) is along the
\* plane normal, and proj(point) + perp(point) = point.
C14_ProjOnPlane ==
    /\ ret.call = "proj" =>
          /\ OnPlane(geo, ret.value)
          /\ \A i \in 1..3 :
                Equals(Plus(ret.value[i], PlanePerp(geo, ret.args[1])[i]), ret.args[1][i], 1)
    /\ ret.call = "perp" =>
          Cross(<<ret.value[1].num, ret.value[2].num, ret.value[3].num>>, Normal(geo)) = Zero3

-----------------------------------------------------------------------------
(* C15 *)

\* C15 (as stated): Line(query, index) returns the point of the line whose
\* index-th coordinate is query, and raises when the two defining points share
\* that coordinate.
C15_LineEvaluation ==
    ret.call = "call" =>
        LET query == ret.args[1]
            i     == ret.args[2] + 1
        IN  IF geo.point[1][i] = geo.point[2][i]
            THEN ret.err # "none"
            ELSE /\ ret.err = "none"
                 /\ \A k \in 1..3 : ret.value[k].kind = "fin"
                 /\ Equals(ret.value[i], query, 1)

====
